---------------------------- MODULE Spec2Model ----------------------------
(***************************************************************************)
(* Model of the budget tool: budget.py (field normalizers, classifier,     *)
(* load_transactions, totals) and dashboard.py (upload parser,             *)
(* compute_aggregates, future_value_monthly_contrib).                      *)
(*                                                                         *)
(* Text is a sequence of one-character strings, so that strip(), lower()   *)
(* and replace() are computed, not assumed.  A Python float is a value of  *)
(* a small binary floating-point format (MantBits significant bits,        *)
(* round-to-nearest-even, inf and nan), so that every += of the code       *)
(* rounds as a float addition does.                                        *)
(***************************************************************************)
EXTENDS Integers, Sequences, FiniteSets, TLC

VARIABLES
    entry,          \* parser: "budget" (load_transactions) or "dashboard" (parse_transactions_from_upload)
    file,           \* parser: the input, [hasHeader, header, lines]
    pc,             \* parser: "start", "rows", "done", "failed" ("off" outside the parser specification)
    pos,            \* parser: number of physical lines after the header the reader has consumed
    line_nr,        \* parser: the code's line_nr counter
    transactions,   \* parser: the list built so far
    raised,         \* parser: the errors raised, in order
    returned,       \* parser: [ok, txs], what the call hands back
    agg_txs,        \* aggregation: the transaction list given
    agg_pc,         \* aggregation: "ready", "done" ("off" outside the aggregation specification)
    agg_out,        \* aggregation: result of compute_aggregates
    tot_out,        \* aggregation: result of compute_totals / sum_expenses_by_*
    grp_in,         \* classifier: [category, group_text]
    grp_pc,         \* classifier: "ready", "done", "off"
    grp_out,        \* classifier: result of group_for_category
    fv_in,          \* projection: [pmt, years, rate, root]
    fv_pc,          \* projection: "ready", "done", "off"
    fv_out,         \* projection: [now, next], future value at years and years + 1
    store_data,     \* dashboard: the data of dcc.Store "store-transactions", [none, txs]
    upload_status,  \* dashboard: the kind of message handle_upload gave last
    last_contents,  \* dashboard: the contents of the most recent upload
    n_uploads,      \* dashboard: uploads handled so far (-1 outside the dashboard specification)
    fig_out,        \* dashboard: what update_figures computed last, and from which store
    pair_file,      \* comparison: the input given to both parsers
    pair_pc,        \* comparison: "ready", "budget", "dashboard", "done", "off"
    pair_out        \* comparison: [budget, dashboard], the outcome of each parser

parserVars == <<entry, file, pc, pos, line_nr, transactions, raised, returned>>
aggVars == <<agg_txs, agg_pc, agg_out, tot_out>>
grpVars == <<grp_in, grp_pc, grp_out>>
fvVars == <<fv_in, fv_pc, fv_out>>
dashVars == <<store_data, upload_status, last_contents, n_uploads, fig_out>>
pairVars == <<pair_file, pair_pc, pair_out>>
vars == <<parserVars, aggVars, grpVars, fvVars, dashVars, pairVars>>

---------------------------------------------------------------------------
(* Bounds of the model *)

\* physical lines after the header in an input file
MaxLines == 3
\* transactions in a list given to the aggregation
MaxTx == 3
\* largest year horizon the projection is asked for (the code's range is 0..40)
MaxYears == 3
\* uploads the dashboard handles in one behaviour
MaxUploads == 2
\* physical lines after the header in an uploaded file
MaxUploadLines == 2

---------------------------------------------------------------------------
(* Text: str.strip, str.lower, str.replace *)

IsSpace(c) == c \in {" ", "\t"}

RECURSIVE LStrip(_)
LStrip(s) == IF s = <<>> THEN <<>>
             ELSE IF IsSpace(Head(s)) THEN LStrip(Tail(s)) ELSE s

RECURSIVE RStrip(_)
RStrip(s) == IF s = <<>> THEN <<>>
             ELSE IF IsSpace(s[Len(s)]) THEN RStrip(SubSeq(s, 1, Len(s) - 1)) ELSE s

\* (text or "").strip(): a missing value (None) is the empty text already
Strip(s) == RStrip(LStrip(s))

UpperToLower ==
    [c \in {"A", "B", "C", "D", "E", "F", "G", "H", "I", "J", "K", "L", "M", "N",
            "O", "P", "Q", "R", "S", "T", "U", "V", "W", "X", "Y", "Z", "Ä", "Ö", "Ü"} |->
        CASE c = "A" -> "a" [] c = "B" -> "b" [] c = "C" -> "c" [] c = "D" -> "d"
          [] c = "E" -> "e" [] c = "F" -> "f" [] c = "G" -> "g" [] c = "H" -> "h"
          [] c = "I" -> "i" [] c = "J" -> "j" [] c = "K" -> "k" [] c = "L" -> "l"
          [] c = "M" -> "m" [] c = "N" -> "n" [] c = "O" -> "o" [] c = "P" -> "p"
          [] c = "Q" -> "q" [] c = "R" -> "r" [] c = "S" -> "s" [] c = "T" -> "t"
          [] c = "U" -> "u" [] c = "V" -> "v" [] c = "W" -> "w" [] c = "X" -> "x"
          [] c = "Y" -> "y" [] c = "Z" -> "z" [] c = "Ä" -> "ä" [] c = "Ö" -> "ö"
          [] c = "Ü" -> "ü"]

Lower(s) == [i \in 1..Len(s) |-> IF s[i] \in DOMAIN UpperToLower THEN UpperToLower[s[i]] ELSE s[i]]

\* text.replace(ch, "")
Remove(s, ch) == SelectSeq(s, LAMBDA c : c # ch)

\* text.replace(a, b) for single characters
Replace(s, a, b) == [i \in 1..Len(s) |-> IF s[i] = a THEN b ELSE s[i]]

---------------------------------------------------------------------------
(* Floats.  A finite value is an integer count v of units of 2^-FracBits    *)
(* with at most MantBits significant bits and |v| <= MaxFinite; the format *)
(* has gradual underflow, +inf, -inf and nan, and rounds to nearest, ties  *)
(* to even, as IEEE-754 binary64 does with 53 bits.                        *)

\* significant bits of a float (binary64: 53)
MantBits == 4
\* the unit is 2^-FracBits (binary64: 2^-1074)
FracBits == 3
\* largest exponent of the unit's multiples (binary64: 2^1023 is the top binade)
MaxExp == 7

RECURSIVE Pow2(_)
Pow2(k) == IF k = 0 THEN 1 ELSE 2 * Pow2(k - 1)

Unit == Pow2(FracBits)
MaxFinite == (Pow2(MantBits) - 1) * Pow2(MaxExp)

Abs(i) == IF i < 0 THEN -i ELSE i

Fin(v) == [c |-> "fin", v |-> v]
PosInf == [c |-> "inf", v |-> 0]
NegInf == [c |-> "ninf", v |-> 0]
NaN == [c |-> "nan", v |-> 0]
\* a Python exception leaving the computation (OverflowError, ZeroDivisionError)
Raised == [c |-> "raise", v |-> 0]
Zero == Fin(0)
One == Fin(Unit)

IsFin(x) == x.c = "fin"

\* n / d rounded to the nearest integer, ties to even (n >= 0, d > 0)
RoundHalfEven(n, d) ==
    LET q == n \div d
        r == n % d
    IN  IF 2 * r < d THEN q
        ELSE IF 2 * r > d THEN q + 1
        ELSE IF q % 2 = 0 THEN q ELSE q + 1

\* the float nearest to the rational n / d units (n >= 0, d > 0); inf on overflow
RoundPos(n, d) ==
    IF n >= d * Pow2(MantBits + MaxExp) THEN PosInf
    ELSE LET e == CHOOSE k \in 0..MaxExp :
                      /\ n < d * Pow2(MantBits + k)
                      /\ (k = 0 \/ n >= d * Pow2(MantBits + k - 1))
             v == RoundHalfEven(n, d * Pow2(e)) * Pow2(e)
         IN  IF v > MaxFinite THEN PosInf ELSE Fin(v)

FNeg(x) == CASE x.c = "fin" -> Fin(-x.v)
             [] x.c = "inf" -> NegInf
             [] x.c = "ninf" -> PosInf
             [] OTHER -> x

\* the float nearest to n / d units, any sign (d > 0)
Round(n, d) == IF n >= 0 THEN RoundPos(n, d) ELSE FNeg(RoundPos(-n, d))

\* float + float
FAdd(a, b) ==
    CASE a.c = "nan" \/ b.c = "nan" -> NaN
      [] a.c = "inf" -> IF b.c = "ninf" THEN NaN ELSE PosInf
      [] a.c = "ninf" -> IF b.c = "inf" THEN NaN ELSE NegInf
      [] b.c \in {"inf", "ninf"} -> b
      [] OTHER -> Round(a.v + b.v, 1)

FSub(a, b) == FAdd(a, FNeg(b))

Sign(x) == CASE x.c = "inf" -> 1 [] x.c = "ninf" -> -1
             [] OTHER -> IF x.v > 0 THEN 1 ELSE IF x.v < 0 THEN -1 ELSE 0

\* float * float
FMul(a, b) ==
    CASE a.c = "nan" \/ b.c = "nan" -> NaN
      [] IsFin(a) /\ IsFin(b) -> Round(a.v * b.v, Unit)
      [] Sign(a) * Sign(b) = 0 -> NaN
      [] Sign(a) * Sign(b) > 0 -> PosInf
      [] OTHER -> NegInf

\* float * int: the int converts to a float exactly (it is far below 2^53)
FMulInt(a, n) ==
    CASE a.c = "nan" -> NaN
      [] IsFin(a) -> Round(a.v * n, 1)
      [] n = 0 -> NaN
      [] OTHER -> IF n > 0 THEN a ELSE FNeg(a)

\* float / float; Python raises ZeroDivisionError on a zero divisor
FDiv(a, b) ==
    CASE IsFin(b) /\ b.v = 0 -> Raised
      [] a.c = "nan" \/ b.c = "nan" -> NaN
      [] IsFin(a) /\ IsFin(b) ->
            IF (a.v >= 0) = (b.v > 0) THEN Round(Abs(a.v) * Unit, Abs(b.v))
            ELSE FNeg(Round(Abs(a.v) * Unit, Abs(b.v)))
      [] IsFin(a) -> Zero
      [] IsFin(b) -> IF Sign(a) * Sign(b) > 0 THEN PosInf ELSE NegInf
      [] OTHER -> NaN

\* Python's ==, <, <=, > on floats: every comparison with nan is false
FEq(a, b) == a.c # "nan" /\ b.c # "nan" /\ a = b
FLt(a, b) ==
    /\ a.c # "nan" /\ b.c # "nan"
    /\ CASE a.c = "ninf" -> b.c # "ninf"
         [] a.c = "inf" -> FALSE
         [] b.c = "inf" -> TRUE
         [] b.c = "ninf" -> FALSE
         [] OTHER -> a.v < b.v
FLe(a, b) == FLt(a, b) \/ FEq(a, b)
FGe(a, b) == FLe(b, a)

---------------------------------------------------------------------------
(* Field normalizers (budget.py).  A normalizer's result is                 *)
(* [ok, val, cause]: the value, or the ValueError it raises.               *)

Ok(v) == [ok |-> TRUE, val |-> v, cause |-> "none"]
Fail(cause) == [ok |-> FALSE, val |-> <<>>, cause |-> cause]

Digits == {"0", "1", "2", "3", "4", "5", "6", "7", "8", "9"}

DigitVal(c) == CASE c = "0" -> 0 [] c = "1" -> 1 [] c = "2" -> 2 [] c = "3" -> 3
                 [] c = "4" -> 4 [] c = "5" -> 5 [] c = "6" -> 6 [] c = "7" -> 7
                 [] c = "8" -> 8 [] c = "9" -> 9

AllDigits(s) == \A i \in 1..Len(s) : s[i] \in Digits

RECURSIVE DigitsToInt(_)
DigitsToInt(s) == IF s = <<>> THEN 0
                  ELSE 10 * DigitsToInt(SubSeq(s, 1, Len(s) - 1)) + DigitVal(s[Len(s)])

RECURSIVE Pow10(_)
Pow10(k) == IF k = 0 THEN 1 ELSE 10 * Pow10(k - 1)

\* index of the first ch in s, 0 when absent
IndexOf(s, ch) == IF \E i \in 1..Len(s) : s[i] = ch
                  THEN CHOOSE i \in 1..Len(s) : s[i] = ch /\ \A j \in 1..(i - 1) : s[j] # ch
                  ELSE 0

\* float(text) on a text without exponent or underscore: [sign] digits [. digits],
\* [sign] inf | infinity | nan in any case; anything else is a ValueError
ParseFloat(s) ==
    LET signed == s # <<>> /\ Head(s) \in {"+", "-"}
        neg == s # <<>> /\ Head(s) = "-"
        body == IF signed THEN Tail(s) ELSE s
        low == Lower(body)
        dot == IndexOf(body, ".")
        ds == Remove(body, ".")
        nfrac == IF dot = 0 THEN 0 ELSE Len(body) - dot
        mag == Round(DigitsToInt(ds) * Unit, Pow10(nfrac))
    IN  IF low \in {<<"i", "n", "f">>, <<"i", "n", "f", "i", "n", "i", "t", "y">>}
        THEN Ok(IF neg THEN NegInf ELSE PosInf)
        ELSE IF low = <<"n", "a", "n">> THEN Ok(NaN)
        ELSE IF ds # <<>> /\ AllDigits(ds) /\ Len(body) - Len(ds) <= 1
        THEN Ok(IF neg THEN FNeg(mag) ELSE mag)
        ELSE Fail("could not convert string to float")

parse_amount(text) ==
    LET t == Strip(text)
    IN  IF t = <<>> THEN Fail("amount ist leer")
        ELSE ParseFloat(Replace(Remove(Remove(t, "'"), " "), ",", "."))

\* s cut at every sep
RECURSIVE Split(_, _)
Split(s, sep) == LET i == IndexOf(s, sep)
                 IN  IF i = 0 THEN <<s>>
                     ELSE <<SubSeq(s, 1, i - 1)>> \o Split(SubSeq(s, i + 1, Len(s)), sep)

IsLeap(y) == (y % 4 = 0 /\ y % 100 # 0) \/ y % 400 = 0

DaysIn(y, m) == IF m = 2 THEN (IF IsLeap(y) THEN 29 ELSE 28)
                ELSE IF m \in {4, 6, 9, 11} THEN 30 ELSE 31

Date(y, m, d) == [y |-> y, m |-> m, d |-> d]

ValidDate(y, m, d) == y >= 1 /\ m \in 1..12 /\ d >= 1 /\ d <= DaysIn(y, m)

\* datetime.strptime(value, fmt).date() for the formats Y<sep>m<sep>d (yearFirst)
\* and d<sep>m<sep>Y: %Y is four digits, %m and %d one or two
Strptime(value, sep, yearFirst) ==
    LET parts == Split(value, sep)
        yp == IF yearFirst THEN parts[1] ELSE parts[3]
        dp == IF yearFirst THEN parts[3] ELSE parts[1]
        mp == parts[2]
    IN  IF /\ Len(parts) = 3
           /\ Len(yp) = 4 /\ Len(mp) \in 1..2 /\ Len(dp) \in 1..2
           /\ AllDigits(yp) /\ AllDigits(mp) /\ AllDigits(dp)
           /\ ValidDate(DigitsToInt(yp), DigitsToInt(mp), DigitsToInt(dp))
        THEN Ok(Date(DigitsToInt(yp), DigitsToInt(mp), DigitsToInt(dp)))
        ELSE Fail("no match")

\* datetime.fromisoformat(value).date() on a timestamp YYYY-MM-DD(T| )HH:MM[:SS]
FromIsoFormat(value) ==
    LET day == Strptime(SubSeq(value, 1, 10), "-", TRUE)
        clock == Split(SubSeq(value, 12, Len(value)), ":")
    IN  IF /\ Len(value) >= 16
           /\ value[11] \in {"T", " "}
           /\ day.ok /\ Len(Split(SubSeq(value, 1, 10), "-")[2]) = 2
           /\ Len(Split(SubSeq(value, 1, 10), "-")[3]) = 2
           /\ Len(clock) \in 2..3
           /\ \A i \in 1..Len(clock) : Len(clock[i]) = 2 /\ AllDigits(clock[i])
           /\ DigitsToInt(clock[1]) <= 23
           /\ \A i \in 2..Len(clock) : DigitsToInt(clock[i]) <= 59
        THEN day
        ELSE Fail("no match")

parse_date(text) ==
    LET value == Strip(text)
        f1 == Strptime(value, "-", TRUE)
        f2 == Strptime(value, ".", FALSE)
        f3 == Strptime(value, "/", FALSE)
        f4 == Strptime(value, "-", FALSE)
        f5 == FromIsoFormat(value)
    IN  IF value = <<>> THEN Fail("date ist leer")
        ELSE IF f1.ok THEN f1
        ELSE IF f2.ok THEN f2
        ELSE IF f3.ok THEN f3
        ELSE IF f4.ok THEN f4
        ELSE IF f5.ok THEN f5
        ELSE Fail("Unbekanntes Datumsformat")

normalize_kind(text) ==
    LET value == Lower(Strip(text))
    IN  IF value \in {<<"i", "n", "c", "o", "m", "e">>, <<"e", "i", "n">>,
                      <<"e", "i", "n", "n", "a", "h", "m", "e">>,
                      <<"e", "i", "n", "n", "a", "h", "m", "e", "n">>}
        THEN Ok("income")
        ELSE IF value \in {<<"e", "x", "p", "e", "n", "s", "e">>, <<"a", "u", "s">>,
                           <<"a", "u", "s", "g", "a", "b", "e">>,
                           <<"a", "u", "s", "g", "a", "b", "e", "n">>}
        THEN Ok("expense")
        ELSE Fail("kind muss income oder expense sein")

normalize_group(text) ==
    LET value == Lower(Strip(text))
    IN  IF value \in {<<"f", "i", "x">>, <<"f", "i", "x", "k", "o", "s", "t", "e", "n">>}
        THEN "fix"
        ELSE IF value \in {<<"w", "a", "n", "t">>, <<"w", "u", "n", "s", "c", "h">>,
                           <<"w", "ü", "n", "s", "c", "h", "e">>,
                           <<"w", "u", "e", "n", "s", "c", "h", "e">>}
        THEN "want"
        ELSE IF value \in {<<"s", "a", "v", "e">>, <<"s", "p", "a", "r", "e", "n">>}
        THEN "save"
        ELSE "other"

\* CATEGORY_TO_GROUP, as the set of its (label, group) entries
CATEGORY_TO_GROUP ==
    { <<<<"M", "i", "e", "t", "e">>, "fix">>,
      <<<<"K", "r", "a", "n", "k", "e", "n", "k", "a", "s", "s", "e">>, "fix">>,
      <<<<"Ö", "V">>, "fix">>,
      <<<<"H", "a", "n", "d", "y">>, "fix">>,
      <<<<"I", "n", "t", "e", "r", "n", "e", "t">>, "fix">>,
      <<<<"S", "t", "r", "o", "m">>, "fix">>,
      <<<<"A", "b", "o">>, "fix">>,
      <<<<"R", "e", "s", "t", "a", "u", "r", "a", "n", "t">>, "want">>,
      <<<<"K", "i", "n", "o">>, "want">>,
      <<<<"G", "a", "m", "e", "s">>, "want">>,
      <<<<"K", "l", "e", "i", "d", "u", "n", "g">>, "want">>,
      <<<<"H", "o", "b", "b", "y">>, "want">>,
      <<<<"S", "p", "a", "r", "e", "n">>, "save">>,
      <<<<"I", "n", "v", "e", "s", "t", "i", "e", "r", "e", "n">>, "save">>
    }

\* CATEGORY_TO_GROUP.get(category, "other")
TableGet(category) ==
    IF \E e \in CATEGORY_TO_GROUP : e[1] = category
    THEN (CHOOSE e \in CATEGORY_TO_GROUP : e[1] = category)[2]
    ELSE "other"

\* a variant of the function below in which a label of the table decides before
\* the override text is looked at
group_for_category_table_first(category, group_text) ==
    LET g == Strip(group_text)
    IN  IF \E e \in CATEGORY_TO_GROUP : e[1] = category THEN TableGet(category)
        ELSE IF g = <<>> THEN "other" ELSE normalize_group(g)

group_for_category(category, group_text) ==
    LET g == Strip(group_text)
    IN  IF g = <<>> THEN TableGet(category) ELSE normalize_group(g)

---------------------------------------------------------------------------
(* Input files.  A file is a header (the set of its column names) and the  *)
(* physical lines after it; a line is blank (0) or the index of a data row *)
(* of RowPool.  A row gives a text to every column the header names.       *)

Required == <<"date", "kind", "amount", "category">>
RequiredSet == {Required[i] : i \in 1..Len(Required)}
Optional == {"group", "note"}

Row(d, k, a, c, g, n) == [date |-> d, kind |-> k, amount |-> a, category |-> c, group |-> g, note |-> n]

T_Jan1 == <<"2", "0", "2", "6", "-", "0", "1", "-", "0", "1">>
T_Jan2 == <<"0", "2", ".", "0", "1", ".", "2", "0", "2", "6">>
T_Feb5 == <<"5", "/", "2", "/", "2", "0", "2", "6">>
T_Dec31 == <<" ", "3", "1", "-", "1", "2", "-", "2", "0", "2", "5">>
T_BadDate == <<"2", "0", "2", "6", "-", "1", "3", "-", "0", "1">>
T_Income == <<"i", "n", "c", "o", "m", "e">>
T_Expense == <<"e", "x", "p", "e", "n", "s", "e">>
T_Ausgaben == <<" ", "A", "u", "s", "g", "a", "b", "e", "n">>
T_Lohn == <<"L", "o", "h", "n">>
T_Miete == <<"M", "i", "e", "t", "e">>
T_Kino == <<"K", "i", "n", "o", " ">>

RowPool ==
    << Row(T_Jan1, T_Income, <<"5">>, T_Lohn, <<>>, <<"a">>),
       Row(T_Jan2, T_Ausgaben, <<"2", ",", "5">>, T_Miete, <<"f", "i", "x">>, <<>>),
       Row(T_Feb5, T_Expense, <<"0", ".", "3">>, T_Kino, <<>>, <<" ", "x", " ">>),
       Row(T_Dec31, T_Expense, <<"1", "'", "0", "0", "0">>, T_Miete, <<"W", "u", "n", "s", "c", "h">>, <<>>),
       Row(T_Jan1, <<"x">>, <<"5">>, T_Lohn, <<>>, <<>>),
       Row(T_Jan1, T_Income, <<>>, T_Lohn, <<>>, <<>>),
       Row(T_Jan1, T_Expense, <<"1", ",", "0", ".", "5">>, T_Miete, <<>>, <<>>),
       Row(T_Jan1, T_Expense, <<"5">>, <<" ">>, <<"f", "i", "x">>, <<>>),
       Row(T_BadDate, T_Expense, <<"5">>, T_Miete, <<>>, <<>>),
       Row(<<>>, T_Income, <<"5">>, T_Lohn, <<>>, <<>>),
       Row(T_Jan1, T_Expense, <<"-", "5">>, T_Miete, <<>>, <<>>),
       Row(T_Jan1, T_Expense, <<"i", "n", "f">>, T_Miete, <<>>, <<>>),
       Row(T_Jan1, T_Income, <<"n", "a", "n">>, T_Lohn, <<>>, <<>>),
       Row(T_BadDate, <<>>, <<>>, <<>>, <<>>, <<>>)
    >>

Blank == 0

RECURSIVE SeqsUpTo(_, _)
SeqsUpTo(S, n) == IF n = 0 THEN {<<>>}
                  ELSE LET shorter == SeqsUpTo(S, n - 1)
                       IN  shorter \cup {Append(q, x) : q \in {t \in shorter : Len(t) = n - 1}, x \in S}

\* the lines the longer files are made of: a blank line, valid rows, and rows
\* failing on the kind, the amount or the date, or on every field, or carrying
\* the amounts -5, inf, nan
LinePool == {Blank, 1, 2, 5, 6, 9, 11, 12, 13, 14}

Files ==
    {[hasHeader |-> TRUE, header |-> RequiredSet \cup opt, lines |-> ls] :
        opt \in {{}, Optional},
        ls \in SeqsUpTo(LinePool, MaxLines) \cup {<<r>> : r \in 1..Len(RowPool)}}
    \cup {[hasHeader |-> TRUE, header |-> h, lines |-> <<1, 5>>] :
            h \in {g \in SUBSET (RequiredSet \cup Optional) : ~(RequiredSet \subseteq g)}}
    \cup {[hasHeader |-> FALSE, header |-> {}, lines |-> <<>>]}

\* the dict csv.DictReader yields for data row r under a header
RowDict(header, r) == [col \in header |-> RowPool[r][col]]

\* (row.get(col) or ""): the text of a column, empty when the header lacks it
Get(row, col) == IF col \in DOMAIN row THEN row[col] ELSE <<>>

---------------------------------------------------------------------------
(* The two parsers: budget.load_transactions and                           *)
(* dashboard.parse_transactions_from_upload                                *)

Tx(dateText, dateObj, kind, amount, category, group, note) ==
    [date |-> dateText, date_obj |-> dateObj, kind |-> kind, amount |-> amount,
     category |-> category, group |-> group, note |-> note]

\* the try block of load_transactions, lines 227-245
NormalizeRowBudget(row) ==
    LET kind == normalize_kind(Get(row, "kind"))
        amount == parse_amount(Get(row, "amount"))
        category == Strip(Get(row, "category"))
        group == group_for_category(category, Get(row, "group"))
        date_obj == parse_date(Get(row, "date"))
    IN  IF ~kind.ok THEN Fail(kind.cause)
        ELSE IF ~amount.ok THEN Fail(amount.cause)
        ELSE IF category = <<>> THEN Fail("category ist leer")
        ELSE IF ~date_obj.ok THEN Fail(date_obj.cause)
        ELSE Ok(Tx(Strip(Get(row, "date")), date_obj.val, kind.val, amount.val,
                   category, group, Strip(Get(row, "note"))))

\* the try block of parse_transactions_from_upload, lines 152-171
NormalizeRowDashboard(row) ==
    LET kind == normalize_kind(Get(row, "kind"))
        amount == parse_amount(Get(row, "amount"))
        category == Strip(Get(row, "category"))
        date_obj == parse_date(Get(row, "date"))
        group == group_for_category(category, Get(row, "group"))
    IN  IF ~kind.ok THEN Fail(kind.cause)
        ELSE IF ~amount.ok THEN Fail(amount.cause)
        ELSE IF category = <<>> THEN Fail("category ist leer")
        ELSE IF ~date_obj.ok THEN Fail(date_obj.cause)
        ELSE Ok(Tx(Strip(Get(row, "date")), date_obj.val, kind.val, amount.val,
                   category, group, Strip(Get(row, "note"))))

\* a variant of the try block that looks at the amount before the kind
NormalizeRowAmountFirst(e, row) ==
    LET kind == normalize_kind(Get(row, "kind"))
        amount == parse_amount(Get(row, "amount"))
        category == Strip(Get(row, "category"))
        date_obj == parse_date(Get(row, "date"))
        group == group_for_category(category, Get(row, "group"))
    IN  IF ~amount.ok THEN Fail(amount.cause)
        ELSE IF ~kind.ok THEN Fail(kind.cause)
        ELSE IF category = <<>> THEN Fail("category ist leer")
        ELSE IF ~date_obj.ok THEN Fail(date_obj.cause)
        ELSE Ok(Tx(Strip(Get(row, "date")), date_obj.val, kind.val, amount.val,
                   category, group, Strip(Get(row, "note"))))

NormalizeRow(e, row) == IF e = "budget" THEN NormalizeRowBudget(row) ELSE NormalizeRowDashboard(row)

\* NormalizeRow of every row of the pool under every complete header, evaluated once
Normalized ==
    [e \in {"budget", "dashboard"}, opt \in SUBSET Optional, r \in 1..Len(RowPool) |->
        NormalizeRow(e, RowDict(RequiredSet \cup opt, r))]

\* the outcome of the try block for line i of file f
RowOutcome(e, f, i) == Normalized[e, f.header \cap Optional, f.lines[i]]

Error(type, line, cause, columns) == [type |-> type, line |-> line, cause |-> cause, columns |-> columns]

\* a raise leaves the call: nothing is returned, whatever was collected
RaiseResult(collected) == [ok |-> FALSE, txs |-> <<>>]

NoResult == [ok |-> FALSE, txs |-> <<>>]

\* budget.py 218-220: the first required column, in the order of the list, that
\* the header lacks
MissingBudget(header) ==
    LET first == CHOOSE i \in 1..Len(Required) :
                    Required[i] \notin header /\ \A j \in 1..(i - 1) : Required[j] \in header
    IN  {Required[first]}

\* dashboard.py 141: required.difference(set(reader.fieldnames))
MissingDashboard(header) == RequiredSet \ header

\* csv.DictReader: the next physical line that is not blank, 0 at the end of the input
NextRow(f, p) ==
    IF \E i \in (p + 1)..Len(f.lines) : f.lines[i] # Blank
    THEN CHOOSE i \in (p + 1)..Len(f.lines) :
            f.lines[i] # Blank /\ \A j \in (p + 1)..(i - 1) : f.lines[j] = Blank
    ELSE 0

\* reader.fieldnames is None: the input has no header line
NoHeader ==
    /\ pc = "start" /\ ~file.hasHeader
    /\ pc' = "failed"
    /\ raised' = Append(raised, Error("header", 0, "CSV hat keine Kopfzeile", {}))
    /\ returned' = RaiseResult(transactions)
    /\ UNCHANGED <<entry, file, pos, line_nr, transactions>>
    /\ UNCHANGED <<aggVars, grpVars, fvVars, dashVars, pairVars>>

\* load_transactions, lines 211-223
HeaderBudget ==
    /\ pc = "start" /\ entry = "budget" /\ file.hasHeader
    /\ IF RequiredSet \subseteq file.header
       THEN /\ pc' = "rows" /\ line_nr' = 1
            /\ UNCHANGED <<raised, returned>>
       ELSE /\ pc' = "failed"
            /\ raised' = Append(raised, Error("columns", 0, "Spalte fehlt", MissingBudget(file.header)))
            /\ returned' = RaiseResult(transactions)
            /\ UNCHANGED line_nr
    /\ UNCHANGED <<entry, file, pos, transactions>>
    /\ UNCHANGED <<aggVars, grpVars, fvVars, dashVars, pairVars>>

\* parse_transactions_from_upload, lines 137-148
HeaderDashboard ==
    /\ pc = "start" /\ entry = "dashboard" /\ file.hasHeader
    /\ IF MissingDashboard(file.header) = {}
       THEN /\ pc' = "rows" /\ line_nr' = 1
            /\ UNCHANGED <<raised, returned>>
       ELSE /\ pc' = "failed"
            /\ raised' = Append(raised, Error("columns", 0, "Spalten fehlen", MissingDashboard(file.header)))
            /\ returned' = RaiseResult(transactions)
            /\ UNCHANGED line_nr
    /\ UNCHANGED <<entry, file, pos, transactions>>
    /\ UNCHANGED <<aggVars, grpVars, fvVars, dashVars, pairVars>>

\* a variant of the turn below that notes the failure of a row and goes on to
\* the next row
ReadRowSkip ==
    /\ pc = "rows" /\ NextRow(file, pos) # 0
    /\ LET i == NextRow(file, pos)
           n == RowOutcome(entry, file, i)
       IN  /\ pos' = i
           /\ line_nr' = line_nr + 1
           /\ IF n.ok
              THEN /\ transactions' = Append(transactions, n.val)
                   /\ UNCHANGED raised
              ELSE /\ raised' = Append(raised, Error("row", line_nr + 1, n.cause, {}))
                   /\ UNCHANGED transactions
    /\ UNCHANGED <<entry, file, pc, returned>>
    /\ UNCHANGED <<aggVars, grpVars, fvVars, dashVars, pairVars>>

\* one turn of "for row in reader": budget.py 224-247, dashboard.py 149-175
ReadRow ==
    /\ pc = "rows" /\ NextRow(file, pos) # 0
    /\ LET i == NextRow(file, pos)
           n == RowOutcome(entry, file, i)
       IN  /\ pos' = i
           /\ line_nr' = line_nr + 1
           /\ IF n.ok
              THEN /\ transactions' = Append(transactions, n.val)
                   /\ UNCHANGED <<pc, raised, returned>>
              ELSE /\ pc' = "failed"
                   /\ raised' = Append(raised, Error("row", line_nr + 1, n.cause, {}))
                   /\ returned' = RaiseResult(transactions)
                   /\ UNCHANGED transactions
    /\ UNCHANGED <<entry, file>>
    /\ UNCHANGED <<aggVars, grpVars, fvVars, dashVars, pairVars>>

\* the reader is exhausted: return transactions
Finish ==
    /\ pc = "rows" /\ NextRow(file, pos) = 0
    /\ pc' = "done"
    /\ pos' = Len(file.lines)
    /\ returned' = [ok |-> TRUE, txs |-> transactions]
    /\ UNCHANGED <<entry, file, line_nr, transactions, raised>>
    /\ UNCHANGED <<aggVars, grpVars, fvVars, dashVars, pairVars>>

---------------------------------------------------------------------------
(* Aggregation: dashboard.compute_aggregates and budget.compute_totals,    *)
(* sum_expenses_by_category, sum_expenses_by_group.  A dict is a function  *)
(* whose domain is its keys (dict equality ignores insertion order).       *)

DigitChar(n) == CASE n = 0 -> "0" [] n = 1 -> "1" [] n = 2 -> "2" [] n = 3 -> "3"
                  [] n = 4 -> "4" [] n = 5 -> "5" [] n = 6 -> "6" [] n = 7 -> "7"
                  [] n = 8 -> "8" [] n = 9 -> "9"

\* n as decimal text, zero-padded to width digits
RECURSIVE Padded(_, _)
Padded(n, width) == IF width = 0 THEN <<>>
                    ELSE Append(Padded(n \div 10, width - 1), DigitChar(n % 10))

\* d.strftime("%Y-%m")
month_key(d) == Padded(d.y, 4) \o <<"-">> \o Padded(d.m, 2)

\* the code points of the characters a month key is made of
CharOrd(c) == IF c = "-" THEN 45 ELSE 48 + DigitVal(c)

\* str < str: the first differing character decides, a proper prefix is smaller
RECURSIVE TextLess(_, _)
TextLess(a, b) ==
    IF b = <<>> THEN FALSE
    ELSE IF a = <<>> THEN TRUE
    ELSE IF Head(a) = Head(b) THEN TextLess(Tail(a), Tail(b))
    ELSE CharOrd(Head(a)) < CharOrd(Head(b))

\* sorted(S) for a set of texts
RECURSIVE Sorted(_)
Sorted(S) == IF S = {} THEN <<>>
             ELSE LET least == CHOOSE x \in S : \A y \in S \ {x} : TextLess(x, y)
                  IN  <<least>> \o Sorted(S \ {least})

EmptyDict == <<>>

\* d[k] += x on a defaultdict(float)
AddTo(d, k, x) == IF k \in DOMAIN d THEN [d EXCEPT ![k] = FAdd(@, x)]
                  ELSE [j \in DOMAIN d \cup {k} |-> IF j = k THEN FAdd(Zero, x) ELSE d[j]]

\* d[m][k] += x on a defaultdict(lambda: defaultdict(float))
AddTo2(d, m, k, x) == IF m \in DOMAIN d THEN [d EXCEPT ![m] = AddTo(@, k, x)]
                      ELSE [j \in DOMAIN d \cup {m} |-> IF j = m THEN AddTo(EmptyDict, k, x) ELSE d[j]]

EmptyAggregates ==
    [monthly_cat |-> EmptyDict, monthly_group |-> EmptyDict, monthly_income |-> EmptyDict,
     monthly_expense |-> EmptyDict, totals_by_category |-> EmptyDict, totals_by_group |-> EmptyDict]

\* a variant of the loop body below in which an income row is not skipped
\* after its month's income is updated
AggStepNoContinue(acc, tx) ==
    LET m == month_key(tx.date_obj)
        inc == IF tx.kind = "income"
               THEN [acc EXCEPT !.monthly_income = AddTo(@, m, tx.amount)] ELSE acc
    IN  [inc EXCEPT !.monthly_expense = AddTo(@, m, tx.amount),
                    !.monthly_cat = AddTo2(@, m, tx.category, tx.amount),
                    !.monthly_group = AddTo2(@, m, tx.group, tx.amount),
                    !.totals_by_category = AddTo(@, tx.category, tx.amount),
                    !.totals_by_group = AddTo(@, tx.group, tx.amount)]

\* the body of "for tx in transactions", dashboard.py 197-206
AggStep(acc, tx) ==
    LET m == month_key(tx.date_obj)
    IN  IF tx.kind = "income"
        THEN [acc EXCEPT !.monthly_income = AddTo(@, m, tx.amount)]
        ELSE [acc EXCEPT !.monthly_expense = AddTo(@, m, tx.amount),
                         !.monthly_cat = AddTo2(@, m, tx.category, tx.amount),
                         !.monthly_group = AddTo2(@, m, tx.group, tx.amount),
                         !.totals_by_category = AddTo(@, tx.category, tx.amount),
                         !.totals_by_group = AddTo(@, tx.group, tx.amount)]

RECURSIVE AggLoop(_, _)
AggLoop(acc, txs) == IF txs = <<>> THEN acc ELSE AggLoop(AggStep(acc, Head(txs)), Tail(txs))

compute_aggregates(txs) ==
    LET acc == AggLoop(EmptyAggregates, txs)
    IN  [months |-> Sorted(DOMAIN acc.monthly_income \cup DOMAIN acc.monthly_expense),
         monthly_income |-> acc.monthly_income,
         monthly_expense |-> acc.monthly_expense,
         monthly_cat |-> acc.monthly_cat,
         monthly_group |-> acc.monthly_group,
         totals_by_category |-> acc.totals_by_category,
         totals_by_group |-> acc.totals_by_group]

\* budget.compute_totals: (income, expense, income - expense)
RECURSIVE TotalsLoop(_, _, _)
TotalsLoop(income, expense, txs) ==
    IF txs = <<>> THEN [income |-> income, expense |-> expense, net |-> FSub(income, expense)]
    ELSE IF Head(txs).kind = "income"
         THEN TotalsLoop(FAdd(income, Head(txs).amount), expense, Tail(txs))
         ELSE TotalsLoop(income, FAdd(expense, Head(txs).amount), Tail(txs))

compute_totals(txs) == TotalsLoop(Zero, Zero, txs)

RECURSIVE SumByLoop(_, _, _)
SumByLoop(sums, txs, field) ==
    IF txs = <<>> THEN sums
    ELSE IF Head(txs).kind = "expense"
         THEN SumByLoop(AddTo(sums, Head(txs)[field], Head(txs).amount), Tail(txs), field)
         ELSE SumByLoop(sums, Tail(txs), field)

sum_expenses_by_category(txs) == SumByLoop(EmptyDict, txs, "category")
sum_expenses_by_group(txs) == SumByLoop(EmptyDict, txs, "group")

\* the key a row has in the dict named by field ("month": its month key)
KeyOf(tx, field) == IF field = "month" THEN month_key(tx.date_obj) ELSE tx[field]

\* the keys of a dict filled from the expense rows of txs, in insertion order:
\* each key where it first occurs
RECURSIVE KeysInOrder(_, _)
KeysInOrder(txs, field) ==
    IF txs = <<>> THEN <<>>
    ELSE LET before == KeysInOrder(SubSeq(txs, 1, Len(txs) - 1), field)
             tx == txs[Len(txs)]
         IN  IF tx.kind = "expense" /\ \A i \in 1..Len(before) : before[i] # KeyOf(tx, field)
             THEN Append(before, KeyOf(tx, field)) ELSE before

\* sum(d.values()): the int 0 plus each value, in insertion order
RECURSIVE SumValues(_, _)
SumValues(d, order) ==
    IF order = <<>> THEN Zero
    ELSE FAdd(SumValues(d, SubSeq(order, 1, Len(order) - 1)), d[order[Len(order)]])

\* the transactions the aggregation is given: rows as the upload parser returns them
AllColumns == RequiredSet \cup Optional
T_Tenth == <<"0", ".", "1">>
T_Two == <<"2">>
AggRows ==
    { Row(T_Jan1, T_Expense, T_Tenth, T_Miete, <<>>, <<>>),
      Row(T_Jan2, T_Expense, T_Tenth, T_Kino, <<>>, <<>>),
      Row(T_Jan1, T_Expense, T_Two, T_Miete, <<>>, <<>>),
      Row(T_Jan2, T_Income, T_Two, T_Lohn, <<>>, <<>>),
      Row(T_Jan1, T_Income, T_Tenth, T_Lohn, <<>>, <<>>),
      Row(T_Feb5, T_Income, T_Tenth, T_Lohn, <<>>, <<>>),
      Row(T_Feb5, T_Ausgaben, <<"2", ",", "5">>, T_Kino, <<>>, <<>>),
      Row(T_Dec31, T_Expense, T_Tenth, T_Miete, <<"W", "u", "n", "s", "c", "h">>, <<>>)
    }
TxPool == {NormalizeRowDashboard([col \in AllColumns |-> r[col]]).val : r \in AggRows}

ComputeAggregates ==
    /\ agg_pc \in {"ready", "totals"}
    /\ agg_out' = compute_aggregates(agg_txs)
    /\ agg_pc' = IF agg_pc = "ready" THEN "aggregates" ELSE "done"
    /\ UNCHANGED <<agg_txs, tot_out>>
    /\ UNCHANGED <<parserVars, grpVars, fvVars, dashVars, pairVars>>

ComputeTotals ==
    /\ agg_pc \in {"ready", "aggregates"}
    /\ tot_out' = [totals |-> compute_totals(agg_txs),
                   by_category |-> sum_expenses_by_category(agg_txs),
                   by_group |-> sum_expenses_by_group(agg_txs)]
    /\ agg_pc' = IF agg_pc = "ready" THEN "totals" ELSE "done"
    /\ UNCHANGED <<agg_txs, agg_out>>
    /\ UNCHANGED <<parserVars, grpVars, fvVars, dashVars, pairVars>>

---------------------------------------------------------------------------
(* Classifier: budget.group_for_category on its own *)

Groups == {"fix", "want", "save", "other"}

CategoryTexts ==
    {e[1] : e \in CATEGORY_TO_GROUP}
    \cup {T_Lohn, <<"m", "i", "e", "t", "e">>, <<"M", "i", "e", "t", "e", " ">>, <<"f", "i", "x">>}

GroupTexts ==
    { <<>>, <<" ">>, <<"\t", " ">>,
      <<"f", "i", "x">>, <<" ", "F", "I", "X", " ">>, <<"F", "i", "x", "k", "o", "s", "t", "e", "n">>,
      <<"w", "a", "n", "t">>, <<"W", "u", "n", "s", "c", "h">>, <<"w", "ü", "n", "s", "c", "h", "e">>,
      <<"W", "Ü", "N", "S", "C", "H", "E">>, <<"w", "u", "e", "n", "s", "c", "h", "e">>,
      <<"s", "a", "v", "e">>, <<"S", "p", "a", "r", "e", "n", " ">>,
      <<"o", "t", "h", "e", "r">>, <<"x">>, <<"f", "i", "x", "e">>, <<"f", " ", "i", "x">>,
      <<"M", "i", "e", "t", "e">> }

Classify ==
    /\ grp_pc = "ready"
    /\ grp_out' = group_for_category(grp_in.category, grp_in.group_text)
    /\ grp_pc' = "done"
    /\ UNCHANGED grp_in
    /\ UNCHANGED <<parserVars, aggVars, fvVars, dashVars, pairVars>>

---------------------------------------------------------------------------
(* Projection: dashboard.future_value_monthly_contrib *)

\* abs(r_m) < 1e-12: 1e-12 lies below the unit of the format, so only 0 is nearer
NearZero(x) == IsFin(x) /\ Abs(x.v) < 1

\* a value the arithmetic of the projection passes through unchanged
Complex == [c |-> "complex", v |-> 0]

\* one factor of a power: Python raises OverflowError when a finite x gives an
\* infinite product
PowStep(rest, x) ==
    IF rest.c = "raise" THEN Raised
    ELSE LET p == FMul(rest, x)
         IN  IF IsFin(x) /\ ~IsFin(p) /\ p.c # "nan" THEN Raised ELSE p

\* acc times k factors x, one after the other, rounded at each factor; the first
\* half of the factors is evaluated before the second half starts
RECURSIVE PowFrom(_, _, _)
PowFrom(acc, x, k) ==
    IF k = 0 THEN acc
    ELSE IF k = 1 THEN PowStep(acc, x)
    ELSE LET h == k \div 2
         IN  CHOOSE p \in {PowFrom(r, x, k - h) : r \in {PowFrom(acc, x, h)}} : TRUE

\* x ** n for a float x and an int n >= 0 (C pow): the product of n factors
FPow(x, n) == PowFrom(One, x, n)

\* the finite floats from lo to hi units
FloatsBetween(lo, hi) == {x \in {Round(n, 1) : n \in lo..hi} : IsFin(x)}

\* (1.0 + annual_real_rate) ** (1.0 / 12.0): every float the twelfth root may
\* round to.  The root of x lies between x and 1; a negative x gives a complex.
Roots(rate) ==
    LET x == FAdd(One, rate)
    IN  CASE x.c = "nan" -> {NaN}
          [] x.c = "inf" -> {PosInf}
          [] x.c = "ninf" -> {Complex}
          [] x.v < 0 -> {Complex}
          [] x.v = 0 -> {Zero}
          [] x.v <= Unit -> FloatsBetween(x.v, Unit)
          [] OTHER -> FloatsBetween(Unit, x.v)

\* a variant of the function below that tests only the years
future_value_no_pmt_guard(pmt, years, root) ==
    IF years <= 0 THEN Zero
    ELSE IF root.c = "complex" THEN Complex
    ELSE LET r_m == FSub(root, One)
             n == years * 12
             p == FPow(FAdd(One, r_m), n)
             q == FDiv(FSub(p, One), r_m)
         IN  IF NearZero(r_m) THEN FMulInt(pmt, n)
             ELSE IF p.c = "raise" \/ q.c = "raise" THEN Raised
             ELSE FMul(pmt, q)

\* a variant of the function below with the difference of the numerator reversed
future_value_reversed(pmt, years, root) ==
    IF years <= 0 \/ FLe(pmt, Zero) THEN Zero
    ELSE IF root.c = "complex" THEN Complex
    ELSE LET r_m == FSub(root, One)
             n == years * 12
             p == FPow(FAdd(One, r_m), n)
             q == FDiv(FSub(One, p), r_m)
         IN  IF NearZero(r_m) THEN FMulInt(pmt, n)
             ELSE IF p.c = "raise" \/ q.c = "raise" THEN Raised
             ELSE FMul(pmt, q)

\* future_value_monthly_contrib(pmt, years, annual_real_rate), where root is
\* the value of (1.0 + annual_real_rate) ** (1.0 / 12.0)
future_value_monthly_contrib(pmt, years, root) ==
    IF years <= 0 \/ FLe(pmt, Zero) THEN Zero
    ELSE IF root.c = "complex" THEN Complex
    ELSE LET r_m == FSub(root, One)
             n == years * 12
             p == FPow(FAdd(One, r_m), n)
             q == FDiv(FSub(p, One), r_m)
         IN  IF NearZero(r_m) THEN FMulInt(pmt, n)
             ELSE IF p.c = "raise" \/ q.c = "raise" THEN Raised
             ELSE FMul(pmt, q)

PmtVals == {Fin(-Unit), Zero, Fin(1), One, Fin(20), PosInf, NaN}
RateVals == {Fin(-2 * Unit), Fin(-Unit), Fin(-4), Fin(-1), Zero, Fin(1), One, Fin(3 * Unit)}

\* fig_savings_projection evaluates the function at consecutive years
Project ==
    /\ fv_pc = "ready"
    /\ fv_out' = [now |-> future_value_monthly_contrib(fv_in.pmt, fv_in.years, fv_in.root),
                  next |-> future_value_monthly_contrib(fv_in.pmt, fv_in.years + 1, fv_in.root)]
    /\ fv_pc' = "done"
    /\ UNCHANGED fv_in
    /\ UNCHANGED <<parserVars, aggVars, grpVars, dashVars, pairVars>>

---------------------------------------------------------------------------
(* A whole parse as one call, and the dashboard's two callbacks:           *)
(* dashboard.handle_upload and dashboard.update_figures                    *)

NoError == Error("none", 0, "none", {})

\* the dicts csv.DictReader yields for the lines of f: none for a blank line
Yielded(f) ==
    LET idx == SelectSeq([i \in 1..Len(f.lines) |-> i], LAMBDA i : f.lines[i] # Blank)
    IN  [k \in 1..Len(idx) |-> RowDict(f.header, f.lines[idx[k]])]

\* "for row in reader" to its end: the first failure leaves the call
RECURSIVE ParseRows(_, _, _, _), ParseRow(_, _, _, _, _)
ParseRows(e, rows, nr, acc) ==
    IF rows = <<>> THEN [ok |-> TRUE, txs |-> acc, error |-> NoError]
    ELSE ParseRow(e, rows, nr + 1, acc, NormalizeRow(e, Head(rows)))

\* one turn of the loop, n being the outcome of the try block on the row
ParseRow(e, rows, nr, acc, n) ==
    IF n.ok THEN ParseRows(e, Tail(rows), nr, Append(acc, n.val))
    ELSE [ok |-> FALSE, txs |-> <<>>, error |-> Error("row", nr, n.cause, {})]

\* load_transactions (e = "budget") or parse_transactions_from_upload
\* (e = "dashboard") on the header and rows its reader yields
ParseCall(e, hasHeader, header, rows) ==
    IF ~hasHeader
    THEN [ok |-> FALSE, txs |-> <<>>, error |-> Error("header", 0, "CSV hat keine Kopfzeile", {})]
    ELSE IF e = "budget" /\ ~(RequiredSet \subseteq header)
    THEN [ok |-> FALSE, txs |-> <<>>,
          error |-> Error("columns", 0, "Spalte fehlt", MissingBudget(header))]
    ELSE IF e = "dashboard" /\ MissingDashboard(header) # {}
    THEN [ok |-> FALSE, txs |-> <<>>,
          error |-> Error("columns", 0, "Spalten fehlen", MissingDashboard(header))]
    ELSE ParseRows(e, rows, 1, <<>>)

parse_transactions_from_upload(f) == ParseCall("dashboard", f.hasHeader, f.header, Yielded(f))

\* a variant of the function below that writes the day before the month
isoformat_day_first(d) == Padded(d.y, 4) \o <<"-">> \o Padded(d.d, 2) \o <<"-">> \o Padded(d.m, 2)

\* date.isoformat(): YYYY-MM-DD
isoformat(d) == Padded(d.y, 4) \o <<"-">> \o Padded(d.m, 2) \o <<"-">> \o Padded(d.d, 2)

\* the dict handle_upload stores for a transaction
Serialize(tx) == [tx EXCEPT !.date_obj = isoformat(@)]

\* the data of the store: None, or a list
None == [none |-> TRUE, txs |-> <<>>]
Stored(txs) == [none |-> FALSE, txs |-> txs]

\* the contents of an upload: nothing, or a file
NoContents == [given |-> FALSE, file |-> <<>>]
Contents(f) == [given |-> TRUE, file |-> f]

\* handle_upload, lines 517-532: the serializable list of a parse that returned,
\* None for one that raised
Outcome(parsed) ==
    IF parsed.ok
    THEN [store |-> Stored([i \in 1..Len(parsed.txs) |-> Serialize(parsed.txs[i])]),
          status |-> "ok"]
    ELSE [store |-> None, status |-> "error"]

\* handle_upload(contents, filename): (store data, kind of status message)
handle_upload(contents) ==
    IF ~contents.given THEN [store |-> None, status |-> "none"]
    ELSE Outcome(parse_transactions_from_upload(contents.file))

\* the keys of a dict filled from the rows of one kind, in insertion order
RECURSIVE KeysInOrderOfKind(_, _, _)
KeysInOrderOfKind(txs, kind, field) ==
    IF txs = <<>> THEN <<>>
    ELSE LET before == KeysInOrderOfKind(SubSeq(txs, 1, Len(txs) - 1), kind, field)
             tx == txs[Len(txs)]
         IN  IF tx.kind = kind /\ \A i \in 1..Len(before) : before[i] # KeyOf(tx, field)
             THEN Append(before, KeyOf(tx, field)) ELSE before

\* max(a, b) of Python: b only if b > a
PyMax(a, b) == IF FLt(a, b) THEN b ELSE a

\* float(n) for a small int n
IntToFloat(n) == Round(n * Unit, 1)

\* the value of the input "input-monthly-saving": None, or a number
NoManual == [given |-> FALSE, val |-> Zero]
Manual(x) == [given |-> TRUE, val |-> x]

Figures(state, agg, net, avg_net, saving, manual, store) ==
    [state |-> state, aggregates |-> agg, net |-> net, avg_net |-> avg_net,
     monthly_saving |-> saving, manual |-> manual, store |-> store]

NoFigures == Figures("none", <<>>, Zero, Zero, Zero, NoManual, None)

\* a variant of the summary below that passes the average net, or the manual
\* value, on as it is
SummaryNoMax(store, manual, agg, total_income, total_expense) ==
    LET net == FSub(total_income, total_expense)
        month_count == IF Len(agg.months) > 1 THEN Len(agg.months) ELSE 1
        avg_net == FDiv(net, IntToFloat(month_count))
        saving == IF ~manual.given THEN avg_net ELSE manual.val
    IN  Figures("shown", agg, net, avg_net, saving, manual, store)

\* update_figures, lines 574-586: the summary numbers and the monthly saving
Summary(store, manual, agg, total_income, total_expense) ==
    LET net == FSub(total_income, total_expense)
        month_count == IF Len(agg.months) > 1 THEN Len(agg.months) ELSE 1
        avg_net == FDiv(net, IntToFloat(month_count))
        saving == IF ~manual.given THEN PyMax(Zero, avg_net) ELSE PyMax(Zero, manual.val)
    IN  Figures("shown", agg, net, avg_net, saving, manual, store)

\* update_figures, lines 573-575: the aggregates and the sums of their values
Aggregated(store, manual, txs, agg) ==
    Summary(store, manual, agg,
            SumValues(agg.monthly_income, KeysInOrderOfKind(txs, "income", "month")),
            SumValues(agg.monthly_expense, KeysInOrderOfKind(txs, "expense", "month")))

\* update_figures, lines 562-567: the list rebuilt with the dates parsed; a date
\* that does not parse leaves the callback with its ValueError
Rebuilt(store, manual, dates) ==
    IF \E i \in 1..Len(dates) : ~dates[i].ok
    THEN Figures("raised", <<>>, Zero, Zero, Zero, manual, store)
    ELSE Aggregated(store, manual,
                    [i \in 1..Len(dates) |-> [store.txs[i] EXCEPT !.date_obj = dates[i].val]],
                    compute_aggregates(
                        [i \in 1..Len(dates) |-> [store.txs[i] EXCEPT !.date_obj = dates[i].val]]))

\* update_figures(store_data, monthly_saving_value, show_income_values) up to the
\* contribution it gives to fig_savings_projection
update_figures(store, manual) ==
    IF store.none \/ store.txs = <<>>
    THEN Figures("empty", <<>>, Zero, Zero, Zero, manual, store)
    ELSE Rebuilt(store, manual,
                 [i \in 1..Len(store.txs) |-> parse_date(store.txs[i].date_obj)])

\* the uploads: rows 1, 4 (valid), 6 (empty amount), 13 (amount nan)
UploadRows == {1, 4, 6, 13}
UploadFiles ==
    {[hasHeader |-> TRUE, header |-> RequiredSet \cup Optional, lines |-> ls] :
        ls \in SeqsUpTo(UploadRows, MaxUploadLines)}
    \cup {[hasHeader |-> TRUE, header |-> {"date", "kind"}, lines |-> <<1>>],
          [hasHeader |-> FALSE, header |-> {}, lines |-> <<>>]}
Uploads == {NoContents} \cup {Contents(f) : f \in UploadFiles}

\* handle_upload of every upload, evaluated once
Handled == [c \in Uploads |-> handle_upload(c)]

ManualVals == {NoManual, Manual(Fin(-Unit)), Manual(Fin(20))}

\* update_figures of every store an upload can leave, evaluated once
Updated ==
    [s \in {Handled[c].store : c \in Uploads}, manual \in ManualVals |-> update_figures(s, manual)]

\* a variant of the callback below that leaves the store as it is when the
\* parse fails
HandleUploadKeep ==
    /\ upload_status # "off" /\ n_uploads < MaxUploads
    /\ \E c \in Uploads :
          /\ store_data' = IF Handled[c].status = "error" THEN store_data ELSE Handled[c].store
          /\ upload_status' = Handled[c].status
          /\ last_contents' = c
    /\ n_uploads' = n_uploads + 1
    /\ UNCHANGED fig_out
    /\ UNCHANGED <<parserVars, aggVars, grpVars, fvVars, pairVars>>

\* the callback of the upload component
HandleUpload ==
    /\ upload_status # "off" /\ n_uploads < MaxUploads
    /\ \E c \in Uploads :
          /\ store_data' = Handled[c].store
          /\ upload_status' = Handled[c].status
          /\ last_contents' = c
    /\ n_uploads' = n_uploads + 1
    /\ UNCHANGED fig_out
    /\ UNCHANGED <<parserVars, aggVars, grpVars, fvVars, pairVars>>

\* the callback of the store and of the input of the monthly saving
UpdateFigures ==
    /\ upload_status # "off"
    /\ \E manual \in ManualVals : fig_out' = Updated[store_data, manual]
    /\ UNCHANGED <<store_data, upload_status, last_contents, n_uploads>>
    /\ UNCHANGED <<parserVars, aggVars, grpVars, fvVars, pairVars>>

---------------------------------------------------------------------------
(* budget.load_transactions and dashboard.parse_transactions_from_upload   *)
(* on the bytes of one file.  The file is comma-delimited and its header   *)
(* names the six columns, date first; it may begin with a byte order mark, *)
(* and it may write the category of its rows in single quotes.             *)

PairLines == {Blank, 1, 4, 5, 6}
PairFiles ==
    {[bom |-> b, quoted |-> q, lines |-> ls] :
        b \in BOOLEAN, q \in BOOLEAN, ls \in SeqsUpTo(PairLines, MaxLines)}

\* the text of a column of data row r as the file writes it
RawField(f, r, col) ==
    IF f.quoted /\ col = "category" THEN <<"'">> \o RowPool[r][col] \o <<"'">>
    ELSE RowPool[r][col]

\* the quote character of the dialect a reader uses: csv.excel for
\* load_transactions; for the upload what csv.Sniffer finds, a single quote
\* when a field between two delimiters is enclosed in single quotes
QuoteChar(e, f) ==
    IF /\ e = "dashboard"
       /\ \E i \in 1..Len(f.lines) :
             /\ f.lines[i] # Blank
             /\ \E col \in AllColumns :
                   LET raw == RawField(f, f.lines[i], col)
                   IN  Len(raw) >= 2 /\ raw[1] = "'" /\ raw[Len(raw)] = "'"
    THEN "'" ELSE "\""

\* a field as the csv reader returns it: without the quotes that enclose it
ReadField(quotechar, raw) ==
    IF Len(raw) >= 2 /\ raw[1] = quotechar /\ raw[Len(raw)] = quotechar
    THEN SubSeq(raw, 2, Len(raw) - 1) ELSE raw

\* the name the reader gives to the first column: open(..., encoding="utf-8")
\* leaves the byte order mark in the text, decode("utf-8-sig") removes it
FirstFieldName(e, f) == IF f.bom /\ e = "budget" THEN "U+FEFFdate" ELSE "date"

\* reader.fieldnames, as a set
FieldNames(e, f) == (AllColumns \ {"date"}) \cup {FirstFieldName(e, f)}

\* the dict the reader yields for data row r
PairRowDict(e, f, r) ==
    [name \in FieldNames(e, f) |->
        ReadField(QuoteChar(e, f), RawField(f, r, IF name = FirstFieldName(e, f) THEN "date" ELSE name))]

\* the rows the reader yields: none for a blank line
PairYielded(e, f) ==
    LET idx == SelectSeq([i \in 1..Len(f.lines) |-> i], LAMBDA i : f.lines[i] # Blank)
    IN  [k \in 1..Len(idx) |-> PairRowDict(e, f, f.lines[idx[k]])]

\* either entry point on the bytes of f
PairParse(e, f) == ParseCall(e, TRUE, FieldNames(e, f), PairYielded(e, f))

\* the outcome of either entry point on every file, evaluated once
PairParsed == [e \in {"budget", "dashboard"}, f \in PairFiles |-> PairParse(e, f)]

NotRun == [ok |-> FALSE, txs |-> <<>>, error |-> Error("not run", 0, "none", {})]

\* budget.load_transactions(path) on the file
LoadTransactions ==
    /\ pair_pc \in {"ready", "dashboard"}
    /\ pair_out' = [pair_out EXCEPT !.budget = PairParsed["budget", pair_file]]
    /\ pair_pc' = IF pair_pc = "ready" THEN "budget" ELSE "both"
    /\ UNCHANGED pair_file
    /\ UNCHANGED <<parserVars, aggVars, grpVars, fvVars, dashVars>>

\* dashboard.parse_transactions_from_upload(contents, filename) on the file
ParseUpload ==
    /\ pair_pc \in {"ready", "budget"}
    /\ pair_out' = [pair_out EXCEPT !.dashboard = PairParsed["dashboard", pair_file]]
    /\ pair_pc' = IF pair_pc = "ready" THEN "dashboard" ELSE "both"
    /\ UNCHANGED pair_file
    /\ UNCHANGED <<parserVars, aggVars, grpVars, fvVars, dashVars>>

aggOff == agg_txs = <<>> /\ agg_pc = "off" /\ agg_out = <<>> /\ tot_out = <<>>
grpOff == grp_in = <<>> /\ grp_pc = "off" /\ grp_out = <<>>
fvOff == fv_in = <<>> /\ fv_pc = "off" /\ fv_out = <<>>
parserOff ==
    /\ entry = "budget" /\ file = <<>> /\ pc = "off" /\ pos = 0 /\ line_nr = 0
    /\ transactions = <<>> /\ raised = <<>> /\ returned = NoResult
dashOff ==
    /\ store_data = <<>> /\ upload_status = "off" /\ last_contents = <<>>
    /\ n_uploads = -1 /\ fig_out = <<>>
pairOff == pair_file = <<>> /\ pair_pc = "off" /\ pair_out = <<>>

Init ==
    /\ entry \in {"budget", "dashboard"}
    /\ file \in Files
    /\ pc = "start" /\ pos = 0 /\ line_nr = 0
    /\ transactions = <<>> /\ raised = <<>> /\ returned = NoResult
    /\ aggOff /\ grpOff /\ fvOff /\ dashOff /\ pairOff

Next == NoHeader \/ HeaderBudget \/ HeaderDashboard \/ ReadRow \/ Finish

Spec == Init /\ [][Next]_vars

InitAgg ==
    /\ agg_txs \in SeqsUpTo(TxPool, MaxTx)
    /\ agg_pc = "ready" /\ agg_out = <<>> /\ tot_out = <<>>
    /\ parserOff /\ grpOff /\ fvOff /\ dashOff /\ pairOff

NextAgg == ComputeAggregates \/ ComputeTotals

SpecAgg == InitAgg /\ [][NextAgg]_vars

InitGroup ==
    /\ grp_in \in [category : CategoryTexts, group_text : GroupTexts]
    /\ grp_pc = "ready" /\ grp_out = <<>>
    /\ parserOff /\ aggOff /\ fvOff /\ dashOff /\ pairOff

NextGroup == Classify

SpecGroup == InitGroup /\ [][NextGroup]_vars

InitFV ==
    /\ \E pmt \in PmtVals, years \in (-1)..MaxYears, rate \in RateVals :
          \E root \in Roots(rate) :
             fv_in = [pmt |-> pmt, years |-> years, rate |-> rate, root |-> root]
    /\ fv_pc = "ready" /\ fv_out = <<>>
    /\ parserOff /\ aggOff /\ grpOff /\ dashOff /\ pairOff

NextFV == Project

SpecFV == InitFV /\ [][NextFV]_vars

InitDash ==
    /\ store_data = None /\ upload_status = "none" /\ last_contents = NoContents
    /\ n_uploads = 0 /\ fig_out = NoFigures
    /\ parserOff /\ aggOff /\ grpOff /\ fvOff /\ pairOff

NextDash == HandleUpload \/ UpdateFigures

SpecDash == InitDash /\ [][NextDash]_vars

InitPair ==
    /\ pair_file \in PairFiles
    /\ pair_pc = "ready" /\ pair_out = [budget |-> NotRun, dashboard |-> NotRun]
    /\ parserOff /\ aggOff /\ grpOff /\ fvOff /\ dashOff

NextPair == LoadTransactions \/ ParseUpload

SpecPair == InitPair /\ [][NextPair]_vars

---------------------------------------------------------------------------
(* Properties of the two parsers (specification Spec) *)

\* the first line of f, in file order, whose row fails normalization; 0 when
\* every row normalizes
FirstFailing(e, f) ==
    IF \E i \in 1..Len(f.lines) : f.lines[i] # Blank /\ ~RowOutcome(e, f, i).ok
    THEN CHOOSE i \in 1..Len(f.lines) :
            /\ f.lines[i] # Blank /\ ~RowOutcome(e, f, i).ok
            /\ \A j \in 1..(i - 1) : f.lines[j] = Blank \/ RowOutcome(e, f, j).ok
    ELSE 0

\* the data rows among the first p lines of f
RowsUpTo(f, p) == {i \in 1..p : f.lines[i] # Blank}

\* the parse has passed the header checks
RowsReached == pc \in {"rows", "done"} \/ (pc = "failed" /\ raised[1].type = "row")

\* C1: fail-fast parse.  When a data row fails normalization, both parsers stop
\* at the first such row in file order: the reader never passes it, exactly one
\* error is raised, and the call returns no transactions, although the rows
\* before the failure were collected.  Without a failing row no error is raised
\* and every data row is returned.
C1_FailFast ==
    /\ Len(raised) <= 1
    /\ RowsReached =>
         LET ff == FirstFailing(entry, file)
         IN  /\ ff # 0 => pos <= ff /\ pc # "done"
             /\ pc = "failed" <=> (ff # 0 /\ pos = ff)
             /\ pc = "failed" =>
                   /\ raised = <<Error("row", raised[1].line, RowOutcome(entry, file, ff).cause, {})>>
                   /\ ~returned.ok /\ returned.txs = <<>>
                   /\ Len(transactions) = Cardinality(RowsUpTo(file, ff - 1))
             /\ pc # "failed" => raised = <<>>
             /\ pc = "done" =>
                   /\ returned = [ok |-> TRUE, txs |-> transactions]
                   /\ Len(transactions) = Cardinality(RowsUpTo(file, Len(file.lines)))

\* C1, its case: a row fails after valid rows were collected and before a later
\* row that would fail as well; nothing is returned
C1_Witness ==
    /\ pc = "failed" /\ raised # <<>> /\ raised[1].type = "row"
    /\ transactions # <<>> /\ returned.txs = <<>>
    /\ \E j \in (pos + 1)..Len(file.lines) :
          file.lines[j] # Blank /\ ~RowOutcome(entry, file, j).ok

\* C2: the line number of a row failure is the 1-based physical line of the
\* failing row, the header being line 1, blank lines counted
C2_LineNumberIsPhysical ==
    (pc = "failed" /\ raised[1].type = "row") => raised[1].line = pos + 1

\* C3: every transaction a successful parse returns has a finite, non-negative
\* amount
C3_AmountsFiniteNonNegative ==
    returned.ok =>
        \A i \in 1..Len(returned.txs) :
            IsFin(returned.txs[i].amount) /\ returned.txs[i].amount.v >= 0

\* C4: a header that lacks required columns fails the parse before any data row
\* is read, and the error names every missing required column, for both parsers
C4_NamesEveryMissingColumn ==
    (pc # "start" /\ file.hasHeader /\ ~(RequiredSet \subseteq file.header)) =>
        /\ pc = "failed" /\ Len(raised) = 1 /\ raised[1].type = "columns"
        /\ raised[1].columns = RequiredSet \ file.header
        /\ pos = 0 /\ transactions = <<>>

---------------------------------------------------------------------------
(* Properties of the aggregation (specification SpecAgg) *)

\* the rows of txs of one kind
OfKind(txs, kind) == SelectSeq(txs, LAMBDA t : t.kind = kind)

\* the rows of txs of one month
OfMonth(txs, m) == SelectSeq(txs, LAMBDA t : month_key(t.date_obj) = m)

\* the keys the rows of txs have in a field
KeySet(txs, field) == {KeyOf(txs[i], field) : i \in 1..Len(txs)}

\* the amounts of txs added one after the other, from 0.0
RECURSIVE Total(_)
Total(txs) ==
    IF txs = <<>> THEN Zero
    ELSE FAdd(Total(SubSeq(txs, 1, Len(txs) - 1)), txs[Len(txs)].amount)

\* every order the rows of txs can be given in
Orders(txs) == {[i \in 1..Len(txs) |-> txs[f[i]]] : f \in Permutations(1..Len(txs))}

\* C5: cross-check of the aggregation.  The total expense equals the sum of the
\* values of the per-category expense sums and the sum of the values of the
\* per-group expense sums, for the totals of budget.py and for those of
\* compute_aggregates.
C5_CrossCheck ==
    agg_pc = "done" =>
        LET cats == KeysInOrder(agg_txs, "category")
            grps == KeysInOrder(agg_txs, "group")
            mons == KeysInOrder(agg_txs, "month")
            board == SumValues(agg_out.monthly_expense, mons)
        IN  /\ FEq(tot_out.totals.expense, SumValues(tot_out.by_category, cats))
            /\ FEq(tot_out.totals.expense, SumValues(tot_out.by_group, grps))
            /\ FEq(board, SumValues(agg_out.totals_by_category, cats))
            /\ FEq(board, SumValues(agg_out.totals_by_group, grps))

\* C6: the aggregation is order-independent.  compute_aggregates gives the same
\* month list, per-month totals, per-month sums and overall totals for every
\* order of the same rows.
C6_OrderIndependent ==
    agg_pc \in {"aggregates", "done"} =>
        \A other \in Orders(agg_txs) : compute_aggregates(other) = agg_out

\* C8: the month list is the set of the month keys of the rows, ascending and
\* without duplicates; a month's income total is the sum of the income rows of
\* that month and of no other row, and a month's expense total, category sums
\* and group sums are the sums of the expense rows of that month, so that a
\* month is present in a breakdown only if a row of that kind falls in it.
C8_MonthsAndBuckets ==
    agg_pc \in {"aggregates", "done"} =>
        LET ms == agg_out.months
            inc == OfKind(agg_txs, "income")
            exp == OfKind(agg_txs, "expense")
        IN  /\ \A i \in 1..(Len(ms) - 1) : TextLess(ms[i], ms[i + 1])
            /\ {ms[i] : i \in 1..Len(ms)} = KeySet(agg_txs, "month")
            /\ DOMAIN agg_out.monthly_income = KeySet(inc, "month")
            /\ \A m \in DOMAIN agg_out.monthly_income :
                  agg_out.monthly_income[m] = Total(OfMonth(inc, m))
            /\ DOMAIN agg_out.monthly_expense = KeySet(exp, "month")
            /\ DOMAIN agg_out.monthly_cat = KeySet(exp, "month")
            /\ DOMAIN agg_out.monthly_group = KeySet(exp, "month")
            /\ \A m \in KeySet(exp, "month") :
                  /\ agg_out.monthly_expense[m] = Total(OfMonth(exp, m))
                  /\ DOMAIN agg_out.monthly_cat[m] = KeySet(OfMonth(exp, m), "category")
                  /\ \A c \in DOMAIN agg_out.monthly_cat[m] :
                        agg_out.monthly_cat[m][c] =
                            Total(SelectSeq(OfMonth(exp, m), LAMBDA t : t.category = c))
                  /\ DOMAIN agg_out.monthly_group[m] = KeySet(OfMonth(exp, m), "group")
                  /\ \A g \in DOMAIN agg_out.monthly_group[m] :
                        agg_out.monthly_group[m][g] =
                            Total(SelectSeq(OfMonth(exp, m), LAMBDA t : t.group = g))

\* C8, its case: rows of two months, one of the months with income only, and a
\* month whose expense total is the sum of two rows
C8_Witness ==
    /\ agg_pc = "done"
    /\ Len(agg_out.months) >= 2
    /\ \E m \in DOMAIN agg_out.monthly_income : m \notin DOMAIN agg_out.monthly_expense
    /\ \E m \in DOMAIN agg_out.monthly_expense : Len(OfMonth(OfKind(agg_txs, "expense"), m)) >= 2

---------------------------------------------------------------------------
(* Properties of the classifier (specification SpecGroup) *)

\* the synonyms of the groups, as lower-case texts
Synonyms ==
    { <<<<"f", "i", "x">>, "fix">>,
      <<<<"f", "i", "x", "k", "o", "s", "t", "e", "n">>, "fix">>,
      <<<<"w", "a", "n", "t">>, "want">>,
      <<<<"w", "u", "n", "s", "c", "h">>, "want">>,
      <<<<"w", "ü", "n", "s", "c", "h", "e">>, "want">>,
      <<<<"w", "u", "e", "n", "s", "c", "h", "e">>, "want">>,
      <<<<"s", "a", "v", "e">>, "save">>,
      <<<<"s", "p", "a", "r", "e", "n">>, "save">>
    }

\* C7: group_for_category returns one of fix, want, save, other.  An override
\* that is not empty after trimming decides alone, by its synonym, and any
\* other text gives other: the result is the same for every category, labels
\* of the table included.  An empty or whitespace-only override gives the
\* table's entry for the exact label, or other when the table lacks the label.
C7_Classification ==
    grp_pc = "done" =>
        LET g == Strip(grp_in.group_text)
            low == Lower(g)
        IN  /\ grp_out \in Groups
            /\ g # <<>> =>
                  /\ \A e \in Synonyms : e[1] = low => grp_out = e[2]
                  /\ (\A e \in Synonyms : e[1] # low) => grp_out = "other"
                  /\ \A c \in CategoryTexts :
                        group_for_category(c, grp_in.group_text) = grp_out
            /\ g = <<>> =>
                  /\ \A e \in CATEGORY_TO_GROUP : e[1] = grp_in.category => grp_out = e[2]
                  /\ (\A e \in CATEGORY_TO_GROUP : e[1] # grp_in.category) => grp_out = "other"

\* C7, its case: an override given for a label of the table, naming another
\* group than the table does
C7_Witness ==
    /\ grp_pc = "done"
    /\ Strip(grp_in.group_text) # <<>>
    /\ \E e \in CATEGORY_TO_GROUP : e[1] = grp_in.category /\ e[2] # grp_out
    /\ grp_out # "other"

---------------------------------------------------------------------------
(* Properties of the projection (specification SpecFV) *)

\* the function returned a float
IsValue(x) == x.c \in {"fin", "inf", "ninf", "nan"}

\* C9: future_value_monthly_contrib returns 0 whenever years <= 0 or pmt <= 0,
\* whatever the rate; so the value at years = 0 is 0 and every series of the
\* projection starts at 0
C9_ZeroGuard ==
    fv_pc = "done" =>
        /\ (fv_in.years <= 0 \/ FLe(fv_in.pmt, Zero)) => fv_out.now = Zero
        /\ (fv_in.years + 1 <= 0 \/ FLe(fv_in.pmt, Zero)) => fv_out.next = Zero

\* C9, its case: a contribution that is not positive, over a positive number
\* of years at a rate that is not zero
C9_Witness ==
    /\ fv_pc = "done"
    /\ fv_in.years > 0 /\ FLt(fv_in.pmt, Zero) /\ fv_in.rate # Zero
    /\ fv_out.now = Zero

\* the inputs C10 speaks of: pmt > 0, rate >= -100%, years >= 0
PositiveContribution ==
    /\ fv_pc = "done"
    /\ FLt(Zero, fv_in.pmt) /\ FGe(fv_in.rate, Fin(-Unit)) /\ fv_in.years >= 0

\* at the zero rate the value is pmt * 12 * years, the product rounded once
ZeroRateProduct ==
    (fv_in.rate = Zero /\ IsFin(fv_in.pmt)) =>
        fv_out.now = Round(fv_in.pmt.v * 12 * fv_in.years, 1)

---------------------------------------------------------------------------
(* Order of the field checks within a row (specification Spec) *)

\* what each field of a row gives on its own, in the order kind, amount,
\* category, date
FieldVerdicts(row) ==
    << normalize_kind(Get(row, "kind")),
       parse_amount(Get(row, "amount")),
       IF Strip(Get(row, "category")) = <<>> THEN Fail("category ist leer")
       ELSE Ok(Strip(Get(row, "category"))),
       parse_date(Get(row, "date")) >>

\* the fields of a row that are invalid, as positions of the order above
InvalidFields(row) == {k \in 1..4 : ~FieldVerdicts(row)[k].ok}

\* the row on line i of f, as the reader yields it
RowAt(f, i) == RowDict(f.header, f.lines[i])

\* C11: the fields of a row are validated in the order kind, amount, category,
\* date.  The one cause reported is that of the earliest invalid field, in this
\* order, of the first failing row in file order; a parse that succeeds has no
\* row with an invalid field.
C11_FieldOrder ==
    /\ pc = "done" =>
         \A i \in 1..Len(file.lines) :
            file.lines[i] # Blank => InvalidFields(RowAt(file, i)) = {}
    /\ (pc = "failed" /\ raised[1].type = "row") =>
         LET bad == InvalidFields(RowAt(file, pos))
             first == CHOOSE k \in bad : \A j \in bad : k <= j
         IN  /\ pos = FirstFailing(entry, file)
             /\ bad # {}
             /\ raised[1].cause = FieldVerdicts(RowAt(file, pos))[first].cause

\* C11, its case: the failing row has an invalid kind and an invalid amount, and
\* a later row fails for another cause; the kind error of the first is reported
C11_Witness ==
    /\ pc = "failed" /\ raised # <<>> /\ raised[1].type = "row"
    /\ {1, 2} \subseteq InvalidFields(RowAt(file, pos))
    /\ raised[1].cause = "kind muss income oder expense sein"
    /\ \E j \in (pos + 1)..Len(file.lines) :
          /\ file.lines[j] # Blank /\ ~RowOutcome(entry, file, j).ok
          /\ RowOutcome(entry, file, j).cause # raised[1].cause

---------------------------------------------------------------------------
(* Properties of the dashboard callbacks (specification SpecDash) *)

\* the transactions parse_transactions_from_upload returns for an uploaded
\* file, row by row: every line normalizes under a complete header
RowsParse(f) ==
    /\ f.hasHeader /\ RequiredSet \subseteq f.header
    /\ \A i \in 1..Len(f.lines) : f.lines[i] = Blank \/ RowOutcome("dashboard", f, i).ok
RowsOf(f) ==
    LET idx == SelectSeq([i \in 1..Len(f.lines) |-> i], LAMBDA i : f.lines[i] # Blank)
    IN  [k \in 1..Len(idx) |-> RowOutcome("dashboard", f, idx[k]).val]

\* the store an upload is to leave
ExpectedStore ==
    [c \in Uploads |->
        IF c.given /\ RowsParse(c.file)
        THEN Stored([k \in 1..Len(RowsOf(c.file)) |-> Serialize(RowsOf(c.file)[k])])
        ELSE None]

\* the aggregates of the transactions as parsed, for every upload that parses
DirectAggregates ==
    [c \in {u \in Uploads : u.given /\ RowsParse(u.file)} |-> compute_aggregates(RowsOf(c.file))]

\* C12: the monthly contribution update_figures gives to the projection is
\* never negative: with no manual value it is max(0, net / max(1, number of
\* months)), with a manual value max(0, manual value); a negative net gives 0
\* and no division by zero occurs.
C12_ContributionNonNegative ==
    fig_out.state = "shown" =>
        LET count == Len(fig_out.aggregates.months)
            quotient == FDiv(fig_out.net, IntToFloat(IF count < 1 THEN 1 ELSE count))
            wanted == IF fig_out.manual.given THEN fig_out.manual.val ELSE quotient
        IN  /\ fig_out.monthly_saving.c # "raise"
            /\ quotient.c # "raise"
            /\ ~FLt(fig_out.monthly_saving, Zero)
            /\ fig_out.monthly_saving = (IF FLt(Zero, wanted) THEN wanted ELSE Zero)
            /\ (~fig_out.manual.given /\ FLt(fig_out.net, Zero)) => fig_out.monthly_saving = Zero

\* a negative net with no manual value has given the contribution 0
C12_Witness ==
    /\ fig_out.state = "shown" /\ ~fig_out.manual.given
    /\ FLt(fig_out.net, Zero) /\ FLt(fig_out.avg_net, Zero)
    /\ fig_out.monthly_saving = Zero

\* C13: after any sequence of uploads the store holds exactly the result of
\* the most recent one: the full list of its transactions if it parsed, None if
\* it failed or had no contents; a failed upload discards what an earlier one
\* stored, and the store never holds the rows read before a failure.
C13_StoreIsLastUpload ==
    n_uploads >= 1 =>
        /\ store_data = ExpectedStore[last_contents]
        /\ upload_status # "ok" => store_data = None
        /\ upload_status = "ok" <=> (last_contents.given /\ RowsParse(last_contents.file))

\* the second upload fails after a valid first row, the first upload having
\* stored a list: the store is None
C13_Witness ==
    /\ n_uploads = 2 /\ upload_status = "error" /\ store_data = None
    /\ fig_out.state = "shown" /\ fig_out.store.txs # <<>>
    /\ last_contents.given /\ Len(last_contents.file.lines) = 2
    /\ RowOutcome("dashboard", last_contents.file, 1).ok
    /\ ~RowOutcome("dashboard", last_contents.file, 2).ok

\* C15: for every transaction of a successful parse, the date handle_upload
\* stores with isoformat() is read back by parse_date in update_figures as the
\* same date, without an exception; the aggregates update_figures computes from
\* the store are those of the transactions as parsed.
C15_StoreRoundTrip ==
    /\ upload_status = "ok" =>
          /\ Len(store_data.txs) = Len(RowsOf(last_contents.file))
          /\ \A i \in 1..Len(store_data.txs) :
                parse_date(store_data.txs[i].date_obj) = Ok(RowsOf(last_contents.file)[i].date_obj)
    /\ fig_out.state # "raised"
    /\ fig_out.state = "shown" =>
          \A c \in DOMAIN DirectAggregates :
             ExpectedStore[c] = fig_out.store => fig_out.aggregates = DirectAggregates[c]

\* figures were computed from a stored list of two transactions of different
\* months, whose dates were written in different formats
C15_Witness ==
    /\ fig_out.state = "shown" /\ fig_out.store = store_data /\ upload_status = "ok"
    /\ Len(store_data.txs) = 2
    /\ Len(fig_out.aggregates.months) = 2
    /\ store_data.txs[1].date_obj # store_data.txs[2].date_obj
    /\ \E i \in 1..2 : RowPool[last_contents.file.lines[i]].date # store_data.txs[i].date_obj

---------------------------------------------------------------------------
(* Properties of the two entry points on one file (specification SpecPair) *)

\* the fields of a transaction the two results are compared on
Compared(tx) ==
    [date |-> tx.date_obj, kind |-> tx.kind, amount |-> tx.amount,
     category |-> tx.category, group |-> tx.group, note |-> tx.note]

\* both calls returned the same transactions in the same order, or both raised
\* for the same line with the same cause
SameOutcome(a, b) ==
    \/ /\ a.ok /\ b.ok
       /\ Len(a.txs) = Len(b.txs)
       /\ \A i \in 1..Len(a.txs) : Compared(a.txs[i]) = Compared(b.txs[i])
    \/ /\ ~a.ok /\ ~b.ok
       /\ a.error.line = b.error.line /\ a.error.cause = b.error.cause

\* C14: on a comma-delimited input whose header has every required column,
\* load_transactions and parse_transactions_from_upload both return the same
\* sequence of transactions, or both fail at the same line with the same cause.
C14_ParsersAgree ==
    pair_pc = "both" => SameOutcome(pair_out.budget, pair_out.dashboard)

=============================================================================
